---- MODULE Spec2Model ----
(***************************************************************************)
(* FoodExpress credit scoring: the score rule (calculate_credit_score),    *)
(* the score-to-status CASE of the two write paths, and the handlers that  *)
(* write users.credit_score, users.credit_status and credit_history.       *)
(*                                                                         *)
(* Representation of SQL values                                            *)
(*   a nullable integer is <<>> (NULL) or <<v>>;                           *)
(*   a nullable decimal average is <<>> (NULL) or <<num, den>>, the        *)
(*   rational num/den in tenths (4.5 is <<45, 1>>), so that comparisons    *)
(*   with 4.0 and 2.0 are exact;                                           *)
(*   a rate completed/total is compared with 0.9, 0.7, 0.3 and 0.1 by      *)
(*   cross multiplication: Python's float division is correctly rounded,   *)
(*   so for the order counts considered here c/t > 0.9 holds exactly when  *)
(*   10*c > 9*t (and 9/10 is the same double as the literal 0.9).          *)
(***************************************************************************)
EXTENDS Integers, Sequences, FiniteSets, TLC

VARIABLES
    users,             \* table users: id -> [role, credit_score, credit_status]
    restaurants,       \* table restaurants: sequence of owner user ids (index = id)
    orders,            \* table orders: sequence of rows (index = id)
    credit_history,    \* table credit_history: sequence of rows, insertion order
    customer_feedback, \* table customer_feedback: sequence of rows
    admin_actions,     \* table admin_actions: sequence of rows
    session,           \* per user: the Flask session written by login
    response,          \* the outcome of the last request
    faults,            \* the number of statements that have raised so far
    stats,             \* the aggregate row handed to the score rule (SpecCalc)
    result,            \* the score and status computed from stats (SpecCalc)
    probe,             \* a score handed to the two status CASEs (SpecTier)
    conns,             \* the requests in flight, each on its own connection (SpecConc)
    returned           \* what a direct call of update_user_credit_score gave (SpecUpdater)

vars == <<users, restaurants, orders, credit_history, customer_feedback,
          admin_actions, session, response, faults, stats, result, probe,
          conns, returned>>

----------------------------------------------------------------------------
(* Bounds                                                                  *)

MaxUsers == 3
MaxOrders == 1
MaxHistory == 2
MaxFeedback == 1
MaxLogins == 1
MaxFaults == 1
MaxStatOrders == 10
MaxProbe == 120
MaxConns == 2
MaxLedger == 11
MaxSeconds == 2

----------------------------------------------------------------------------
(* Configuration (src/config.py)                                           *)

DEFAULT_CREDIT_SCORE == 70

CREDIT_SCORE_RANGES ==
    [trusted |-> <<90, 100>>, good |-> <<75, 89>>, average |-> <<50, 74>>,
     risky |-> <<30, 49>>, blocked |-> <<0, 29>>]

Tiers == {"trusted", "good", "average", "risky", "blocked"}

----------------------------------------------------------------------------
(* Helpers                                                                 *)

Null == <<>>

safe_int(value) == IF value = Null THEN 0 ELSE value[1]

safe_float(value) == IF value = Null THEN <<0, 1>> ELSE value

\* the Python comparisons of a float average with 4.0 and 2.0 (tenths)
FloatGT(x, tenths) == x[1] > tenths * x[2]
FloatLT(x, tenths) == x[1] < tenths * x[2]

----------------------------------------------------------------------------
(* calculate_credit_score, lines 73-117, on one aggregate row              *)

CompletionBonusNonStrict(total_orders, completed_orders) ==
    IF 10 * completed_orders >= 9 * total_orders THEN 10
    ELSE IF 10 * completed_orders > 7 * total_orders THEN 5
    ELSE 0

CompletionBonus(total_orders, completed_orders) ==
    IF 10 * completed_orders > 9 * total_orders THEN 10
    ELSE IF 10 * completed_orders > 7 * total_orders THEN 5
    ELSE 0

CancellationPenalty(total_orders, cancelled_orders) ==
    IF 10 * cancelled_orders > 3 * total_orders THEN 20
    ELSE IF 10 * cancelled_orders > 1 * total_orders THEN 10
    ELSE 0

PaymentPenalty(failed_payments) ==
    IF failed_payments > 0 THEN failed_payments * 5 ELSE 0

RestaurantFeedbackAdjustNonStrict(avg_restaurant_feedback) ==
    IF ~FloatLT(avg_restaurant_feedback, 40) THEN 5
    ELSE IF FloatLT(avg_restaurant_feedback, 20) THEN -10
    ELSE 0

RestaurantFeedbackAdjust(avg_restaurant_feedback) ==
    IF FloatGT(avg_restaurant_feedback, 40) THEN 5
    ELSE IF FloatLT(avg_restaurant_feedback, 20) THEN -10
    ELSE 0

DeliveryFeedbackAdjust(avg_delivery_feedback) ==
    IF FloatGT(avg_delivery_feedback, 40) THEN 3
    ELSE IF FloatLT(avg_delivery_feedback, 20) THEN -5
    ELSE 0

Min(a, b) == IF a < b THEN a ELSE b
Max(a, b) == IF a > b THEN a ELSE b

ClampScoreMissing(score) == score

ClampScore(score) == Max(0, Min(100, score))

ScoreFromRowUnguarded(row) ==
    LET total_orders == safe_int(row.total_orders)
        completed_orders == safe_int(row.completed_orders)
        cancelled_orders == safe_int(row.cancelled_orders)
        failed_payments == safe_int(row.failed_payments)
        avg_restaurant_feedback == safe_float(row.avg_restaurant_feedback)
        avg_delivery_feedback == safe_float(row.avg_delivery_feedback)
        score == DEFAULT_CREDIT_SCORE
        adjusted ==
            score
            + CompletionBonus(total_orders, completed_orders)
            - CancellationPenalty(total_orders, cancelled_orders)
            - PaymentPenalty(failed_payments)
            + RestaurantFeedbackAdjust(avg_restaurant_feedback)
            + DeliveryFeedbackAdjust(avg_delivery_feedback)
    IN  ClampScore(adjusted)

ScoreFromRow(row) ==
    LET total_orders == safe_int(row.total_orders)
        completed_orders == safe_int(row.completed_orders)
        cancelled_orders == safe_int(row.cancelled_orders)
        failed_payments == safe_int(row.failed_payments)
        avg_restaurant_feedback == safe_float(row.avg_restaurant_feedback)
        avg_delivery_feedback == safe_float(row.avg_delivery_feedback)
        score == DEFAULT_CREDIT_SCORE
        adjusted ==
            IF total_orders > 0
            THEN score
                 + CompletionBonus(total_orders, completed_orders)
                 - CancellationPenalty(total_orders, cancelled_orders)
                 - PaymentPenalty(failed_payments)
                 + RestaurantFeedbackAdjust(avg_restaurant_feedback)
                 + DeliveryFeedbackAdjust(avg_delivery_feedback)
            ELSE score
    IN  ClampScore(adjusted)

----------------------------------------------------------------------------
(* The status CASE of the two UPDATE users statements                      *)

\* update_user_credit_score, lines 135-141
StatusCaseRecompute(score) ==
    IF score >= 90 THEN "trusted"
    ELSE IF score >= 75 THEN "good"
    ELSE IF score >= 50 THEN "average"
    ELSE IF score >= 30 THEN "risky"
    ELSE "blocked"

StatusCaseOverrideShifted(score) ==
    IF score >= 90 THEN "trusted"
    ELSE IF score > 75 THEN "good"
    ELSE IF score >= 50 THEN "average"
    ELSE IF score >= 30 THEN "risky"
    ELSE "blocked"

\* admin_update_credit_score, lines 1985-1991
StatusCaseOverride(score) ==
    IF score >= 90 THEN "trusted"
    ELSE IF score >= 75 THEN "good"
    ELSE IF score >= 50 THEN "average"
    ELSE IF score >= 30 THEN "risky"
    ELSE "blocked"

----------------------------------------------------------------------------
(* The aggregate query of calculate_credit_score, lines 56-66              *)

RECURSIVE SumOver(_, _)
SumOver(f, S) ==
    IF S = {} THEN 0
    ELSE LET x == CHOOSE y \in S : TRUE IN f[x] + SumOver(f, S \ {x})

\* AVG(column) over the rows in S: NULL values are skipped, NULL if none is left
SqlAvg(ords, S, column) ==
    LET nonnull == {i \in S : ords[i][column] # Null}
        value == [i \in nonnull |-> ords[i][column][1]]
    IN  IF nonnull = {} THEN Null
        ELSE <<SumOver(value, nonnull), Cardinality(nonnull)>>

\* SUM(CASE WHEN column = v THEN 1 ELSE 0 END): NULL over no rows
SqlSumCase(ords, S, column, v) ==
    IF S = {} THEN Null
    ELSE <<Cardinality({i \in S : ords[i][column] = v})>>

OrdersOf(ords, user_id) == {i \in 1..Len(ords) : ords[i].user_id = user_id}

AggregateRow(ords, user_id) ==
    LET S == OrdersOf(ords, user_id)
    IN  [total_orders |-> <<Cardinality(S)>>,
         completed_orders |-> SqlSumCase(ords, S, "status", "completed"),
         cancelled_orders |-> SqlSumCase(ords, S, "status", "cancelled"),
         failed_payments |-> SqlSumCase(ords, S, "payment_status", "failed"),
         avg_restaurant_feedback |-> SqlAvg(ords, S, "restaurant_feedback"),
         avg_delivery_feedback |-> SqlAvg(ords, S, "delivery_feedback")]

\* calculate_credit_score(user_id) on the orders visible to the request;
\* failed: the query raised, and the except branch answers the default
calculate_credit_score(ords, user_id, failed) ==
    IF failed THEN DEFAULT_CREDIT_SCORE
    ELSE ScoreFromRow(AggregateRow(ords, user_id))

----------------------------------------------------------------------------
(* Rows                                                                    *)

RegisterRoles == {"customer", "restaurant"}
OrderStatusEnum == {"pending", "accepted", "preparing", "ready",
                    "out_for_delivery", "delivered", "cancelled"}
CancelledByEnum == {"customer", "restaurant", "system", "delivery"}
StatusInputs == {"delivered", "cancelled", "completed"}
PaymentMethods == {"card"}
OverrideScores == {-5, 40, 150}
Ratings == {1, 5}

NoSession == [logged_in |-> FALSE, logins |-> 0, role |-> "",
              credit_score |-> 0, credit_status |-> ""]

\* what the request answers: the JSON success flag and message (the redirect
\* after a completed form counts as success)
NoResponse == [success |-> FALSE, message |-> ""]
Ok == [success |-> TRUE, message |-> "ok"]
FailureSilent(message) == [success |-> TRUE, message |-> message]
Failure(message) == [success |-> FALSE, message |-> message]

NoneMinusIntSilent == Ok

\* update_user_credit_score gave None (line 149) and the caller's
\* new_score - old raised TypeError: the except branch answers str(e)
NoneMinusInt == Failure("unsupported operand type(s) for -")

\* init_db, lines 371-374
AdminSeed == [role |-> "admin", credit_score |-> 100, credit_status |-> "trusted"]

\* register, lines 443-446
RegisteredUser(role) ==
    [role |-> role, credit_score |-> DEFAULT_CREDIT_SCORE, credit_status |-> "average"]

RecomputeWriteStatusOnly(row, score) ==
    [row EXCEPT !.credit_status = StatusCaseRecompute(score)]

\* the UPDATE users of update_user_credit_score, lines 132-144
RecomputeWrite(row, score) ==
    [row EXCEPT !.credit_score = score,
                !.credit_status = StatusCaseRecompute(score)]

OverrideWriteScoreOnly(row, new_score) ==
    [row EXCEPT !.credit_score = new_score]

\* the UPDATE users of admin_update_credit_score, lines 1982-1994
OverrideWrite(row, new_score) ==
    [row EXCEPT !.credit_score = new_score,
                !.credit_status = StatusCaseOverride(new_score)]

HistoryRowStale(user_id, old_score, new_score, triggered_by, reference_id) ==
    [user_id |-> user_id, old_score |-> old_score, new_score |-> old_score,
     change_amount |-> new_score - old_score, triggered_by |-> triggered_by,
     reference_id |-> reference_id]

HistoryRowChangeSwapped(user_id, old_score, new_score, triggered_by, reference_id) ==
    [user_id |-> user_id, old_score |-> old_score, new_score |-> new_score,
     change_amount |-> old_score - new_score, triggered_by |-> triggered_by,
     reference_id |-> reference_id]

\* the INSERT INTO credit_history of the three writers
HistoryRow(user_id, old_score, new_score, triggered_by, reference_id) ==
    [user_id |-> user_id, old_score |-> old_score, new_score |-> new_score,
     change_amount |-> new_score - old_score, triggered_by |-> triggered_by,
     reference_id |-> reference_id]

InsertHistoryReplacing(table, row) == <<row>>

\* INSERT INTO credit_history: the row goes after the rows of the table
InsertHistory(table, row) == Append(table, row)

DiscountPercentageFlat(credit_score) == 10

\* the discount rule of create_order (2129-2137) and checkout (3445-3453)
DiscountPercentage(credit_score) ==
    IF credit_score >= 90 THEN 20
    ELSE IF credit_score >= 75 THEN 15
    ELSE IF credit_score >= 50 THEN 10
    ELSE IF credit_score >= 30 THEN 5
    ELSE 0

NewOrder(user_id, restaurant_id, payment_status, credit_score) ==
    [user_id |-> user_id, restaurant_id |-> restaurant_id,
     status |-> "pending", payment_status |-> payment_status,
     customer_credit_score |-> <<credit_score>>,
     discount_percentage |-> DiscountPercentage(credit_score),
     restaurant_feedback |-> Null, delivery_feedback |-> Null,
     cancelled_by |-> Null]

UserIds == 1..MaxUsers
LoggedIn(u, role) == session[u].logged_in /\ session[u].role = role

----------------------------------------------------------------------------
(* Requests.  A handler is one action: flask_mysqldb gives the request one *)
(* connection, so the conn.commit() inside update_user_credit_score also   *)
(* commits what the calling handler has written so far, and the handler's  *)
(* conn.rollback() undoes only what was written after it.                  *)
(* fault names the statement of the request that raises ("none": no one).  *)

\* register, lines 423-467
register(role) ==
    /\ Cardinality(DOMAIN users) < MaxUsers
    /\ LET user_id == Cardinality(DOMAIN users) + 1
       IN  /\ users' = users @@ (user_id :> RegisteredUser(role))
           /\ restaurants' = IF role = "restaurant"
                             THEN Append(restaurants, user_id)
                             ELSE restaurants
           /\ response' = Ok
    /\ UNCHANGED <<orders, credit_history, customer_feedback, admin_actions,
                   session, faults, stats, result, probe, conns,
                   returned>>

\* login, lines 387-421
login(u) ==
    /\ u \in DOMAIN users
    /\ session[u].logins < MaxLogins
    /\ session' = [session EXCEPT ![u] =
                      [logged_in |-> TRUE, logins |-> session[u].logins + 1,
                       role |-> users[u].role,
                       credit_score |-> users[u].credit_score,
                       credit_status |-> users[u].credit_status]]
    /\ response' = Ok
    /\ UNCHANGED <<users, restaurants, orders, credit_history,
                   customer_feedback, admin_actions, faults, stats, result,
                   probe, conns, returned>>

\* create_order, lines 2115-2202
create_order(u, restaurant_id) ==
    /\ LoggedIn(u, "customer")
    /\ Len(orders) < MaxOrders
    /\ restaurant_id \in 1..Len(restaurants)
    /\ LET credit_score == safe_int(<<users[u].credit_score>>)
       IN  orders' = Append(orders,
                        NewOrder(u, restaurant_id, "completed", credit_score))
    /\ response' = Ok
    /\ UNCHANGED <<users, restaurants, credit_history, customer_feedback,
                   admin_actions, session, faults, stats, result, probe, conns,
                   returned>>

\* checkout, lines 3398-3525
checkout(u, restaurant_id, payment_method) ==
    /\ LoggedIn(u, "customer")
    /\ Len(orders) < MaxOrders
    /\ restaurant_id \in 1..Len(restaurants)
    /\ LET credit_score == safe_int(<<users[u].credit_score>>)
           payment_status == IF payment_method # "cod" THEN "completed"
                             ELSE "pending"
       IN  orders' = Append(orders,
                        NewOrder(u, restaurant_id, payment_status, credit_score))
    /\ response' = Ok
    /\ UNCHANGED <<users, restaurants, credit_history, customer_feedback,
                   admin_actions, session, faults, stats, result, probe, conns,
                   returned>>

\* update_order_status, lines 1840-1890.  A status outside the ENUM of
\* orders.status is refused by a strict-mode server (the handler rolls back)
\* and stored as '' by a non-strict one.
update_order_status(u, order_id, status, strict) ==
    /\ LoggedIn(u, "restaurant")
    /\ IF order_id \notin 1..Len(orders)
       THEN /\ response' = Failure("Order not found")
            /\ UNCHANGED orders
       ELSE IF status \notin OrderStatusEnum /\ strict
       THEN /\ response' = Failure("error")
            /\ UNCHANGED orders
       ELSE /\ orders' = [orders EXCEPT ![order_id].status =
                             IF status \in OrderStatusEnum THEN status ELSE ""]
            /\ response' = Ok
    /\ UNCHANGED <<users, restaurants, credit_history, customer_feedback,
                   admin_actions, session, faults, stats, result, probe, conns,
                   returned>>

Faults == {"none", "calc", "update", "history"}
OverrideFaults == {"none", "update", "history", "admin_actions"}

\* a statement of the request raises only where the request gets to it, and
\* at most MaxFaults statements raise in a run
Raises(fault, reached) ==
    IF fault # "none" /\ reached
    THEN faults < MaxFaults /\ faults' = faults + 1
    ELSE fault = "none" /\ faults' = faults

\* update_user_credit_score, lines 125-151: the score it writes and returns
update_user_credit_score(ords, user_id, fault) ==
    calculate_credit_score(ords, user_id, fault = "calc")

\* cancel_order, lines 2206-2273.  cancelled_by takes the session role; a
\* role outside the ENUM of orders.cancelled_by ('admin') is refused by a
\* strict-mode server and stored as '' by a non-strict one.
cancel_order(u, order_id, fault, strict) ==
    /\ session[u].logged_in
    /\ session[u].role = "customer" => Len(credit_history) < MaxHistory
    /\ LET role == session[u].role
           found == order_id \in 1..Len(orders)
           order == orders[order_id]
           customer == order.user_id
           authorized == \/ role = "admin"
                         \/ customer = u
                         \/ restaurants[order.restaurant_id] = u
           cancelled == [orders EXCEPT
                            ![order_id].status = "cancelled",
                            ![order_id].cancelled_by =
                                IF role \in CancelledByEnum THEN <<role>>
                                ELSE <<"">>]
           new_score == update_user_credit_score(cancelled, customer, fault)
       IN  /\ Raises(fault, found /\ authorized /\ role = "customer")
           /\ IF ~found
              THEN /\ response' = Failure("Order not found")
                   /\ UNCHANGED <<users, orders, credit_history>>
              ELSE IF ~authorized
              THEN /\ response' = Failure("Unauthorized")
                   /\ UNCHANGED <<users, orders, credit_history>>
              ELSE IF role \notin CancelledByEnum /\ strict
              THEN /\ response' = Failure("error")
                   /\ UNCHANGED <<users, orders, credit_history>>
              ELSE IF role # "customer"
              THEN /\ orders' = cancelled
                   /\ response' = Ok
                   /\ UNCHANGED <<users, credit_history>>
              ELSE IF fault = "update"
              THEN \* the UPDATE users raised: None comes back, new_score - old
                   \* raises, and the rollback undoes the order update
                   /\ response' = NoneMinusInt
                   /\ UNCHANGED <<users, orders, credit_history>>
              ELSE \* conn.commit() of line 145: order and score are committed
                   /\ orders' = cancelled
                   /\ users' = [users EXCEPT ![customer] =
                                   RecomputeWrite(users[customer], new_score)]
                   /\ IF fault = "history"
                      THEN /\ UNCHANGED credit_history
                           /\ response' = Failure("error")
                      ELSE /\ credit_history' = InsertHistory(credit_history,
                                  HistoryRow(customer,
                                             safe_int(order.customer_credit_score),
                                             new_score, "system", <<order_id>>))
                           /\ response' = Ok
    /\ UNCHANGED <<restaurants, customer_feedback, admin_actions, session,
                   stats, result, probe, conns,
                   returned>>

\* submit_customer_feedback, lines 1894-1957
submit_customer_feedback(u, order_id, rating, fault) ==
    /\ LoggedIn(u, "restaurant")
    /\ Len(credit_history) < MaxHistory
    /\ Len(customer_feedback) < MaxFeedback
    /\ LET restaurant_id == CHOOSE r \in 1..Len(restaurants) : restaurants[r] = u
           found == order_id \in 1..Len(orders)
           customer_id == orders[order_id].user_id
           feedback == [restaurant_id |-> restaurant_id, user_id |-> customer_id,
                        order_id |-> order_id, politeness_rating |-> rating,
                        pickup_punctuality |-> rating,
                        order_authenticity |-> rating]
           new_score == update_user_credit_score(orders, customer_id, fault)
           old_score == session[u].credit_score
       IN  /\ Raises(fault, found)
           /\ IF ~found
              THEN /\ response' = Failure("Order not found")
                   /\ UNCHANGED <<users, credit_history, customer_feedback>>
              ELSE IF fault = "update"
              THEN \* None comes back, new_score - old raises, and the
                   \* rollback undoes the feedback row
                   /\ response' = NoneMinusInt
                   /\ UNCHANGED <<users, credit_history, customer_feedback>>
              ELSE \* conn.commit() of line 145: feedback and score are committed
                   /\ customer_feedback' = Append(customer_feedback, feedback)
                   /\ users' = [users EXCEPT ![customer_id] =
                                   RecomputeWrite(users[customer_id], new_score)]
                   /\ IF fault = "history"
                      THEN /\ UNCHANGED credit_history
                           /\ response' = Failure("error")
                      ELSE /\ credit_history' = InsertHistory(credit_history,
                                  HistoryRow(customer_id, old_score, new_score,
                                             "restaurant", <<order_id>>))
                           /\ response' = Ok
    /\ UNCHANGED <<restaurants, orders, admin_actions, session, stats, result,
                   probe, conns,
                   returned>>

\* admin_update_credit_score, lines 1961-2020
admin_update_credit_score(u, user_id, score, fault) ==
    /\ LoggedIn(u, "admin")
    /\ Len(credit_history) < MaxHistory
    /\ LET new_score == safe_int(<<score>>)
           found == user_id \in DOMAIN users
           old_score == safe_int(<<users[user_id].credit_score>>)
       IN  /\ Raises(fault, found)
           /\ IF ~found
              THEN /\ response' = Failure("User not found")
                   /\ UNCHANGED <<users, credit_history, admin_actions>>
              ELSE IF fault # "none"
              THEN \* one of the three statements raised: rollback
                   /\ response' = Failure("error")
                   /\ UNCHANGED <<users, credit_history, admin_actions>>
              ELSE /\ users' = [users EXCEPT ![user_id] =
                                   OverrideWrite(users[user_id], new_score)]
                   /\ credit_history' = InsertHistory(credit_history,
                          HistoryRow(user_id, old_score, new_score, "admin", Null))
                   /\ admin_actions' = Append(admin_actions,
                          [admin_id |-> u, action_type |-> "update_credit_score",
                           target_id |-> user_id, old_score |-> old_score,
                           new_score |-> new_score])
                   /\ response' = Ok
    /\ UNCHANGED <<restaurants, orders, customer_feedback, session, stats,
                   result, probe, conns,
                   returned>>

----------------------------------------------------------------------------
(* The application                                                         *)

NoStats == [total_orders |-> <<0>>, completed_orders |-> Null,
            cancelled_orders |-> Null, failed_payments |-> Null,
            avg_restaurant_feedback |-> Null, avg_delivery_feedback |-> Null]
NoResult == [done |-> FALSE, score |-> 0, status |-> ""]
NoProbe == [done |-> FALSE, score |-> 0, recompute |-> "", override |-> ""]
NoConns == <<>>
NoReturn == [called |-> FALSE, user_id |-> 0, score |-> Null]

\* the database after init_db (lines 185-377), nobody logged in
InitDb ==
    /\ users = (1 :> AdminSeed)
    /\ restaurants = <<>>
    /\ orders = <<>>
    /\ credit_history = <<>>
    /\ customer_feedback = <<>>
    /\ admin_actions = <<>>
    /\ session = [u \in UserIds |-> NoSession]
    /\ response = NoResponse
    /\ faults = 0
    /\ conns = NoConns
    /\ returned = NoReturn

Init ==
    /\ InitDb
    /\ stats = NoStats
    /\ result = NoResult
    /\ probe = NoProbe

Next ==
    \/ \E role \in RegisterRoles : register(role)
    \/ \E u \in UserIds : login(u)
    \/ \E u \in UserIds, r \in 1..MaxUsers : create_order(u, r)
    \/ \E u \in UserIds, r \in 1..MaxUsers, m \in PaymentMethods :
          checkout(u, r, m)
    \/ \E u \in UserIds, o \in 1..MaxOrders, s \in StatusInputs,
          strict \in BOOLEAN : update_order_status(u, o, s, strict)
    \/ \E u \in UserIds, o \in 1..MaxOrders, f \in Faults, strict \in BOOLEAN :
          cancel_order(u, o, f, strict)
    \/ \E u \in UserIds, o \in 1..MaxOrders, r \in Ratings, f \in Faults :
          submit_customer_feedback(u, o, r, f)
    \/ \E u \in UserIds, t \in UserIds, s \in OverrideScores,
          f \in OverrideFaults : admin_update_credit_score(u, t, s, f)

Spec == Init /\ [][Next]_vars

----------------------------------------------------------------------------
(* The score rule on its own: the aggregate row is drawn from StatsInputs  *)
(* and handed to lines 73-117 and to the status CASE of lines 135-141.     *)

CountInputs == {Null} \cup {<<n>> : n \in 0..MaxStatOrders}
FailedInputs == {Null, <<0>>, <<1>>, <<2>>, <<1000>>}
FeedbackInputs == {Null, <<10, 1>>, <<15, 1>>, <<20, 1>>, <<40, 1>>,
                   <<42, 1>>, <<45, 1>>}

StatsInputs ==
    [total_orders : {<<n>> : n \in 0..MaxStatOrders},
     completed_orders : CountInputs,
     cancelled_orders : CountInputs,
     failed_payments : FailedInputs,
     avg_restaurant_feedback : FeedbackInputs,
     avg_delivery_feedback : FeedbackInputs]

InitCalc ==
    /\ InitDb
    /\ stats \in StatsInputs
    /\ result = NoResult
    /\ probe = NoProbe

compute_score ==
    /\ ~result.done
    /\ LET score == ScoreFromRow(stats)
       IN  result' = [done |-> TRUE, score |-> score,
                      status |-> StatusCaseRecompute(score)]
    /\ UNCHANGED <<users, restaurants, orders, credit_history,
                   customer_feedback, admin_actions, session, response,
                   faults, stats, probe, conns,
                   returned>>

NextCalc == compute_score

SpecCalc == InitCalc /\ [][NextCalc]_vars

----------------------------------------------------------------------------
(* The two status CASEs on their own: a score is drawn and mapped by both  *)

ProbeScores == (0 - 20)..MaxProbe

InitTier ==
    /\ InitDb
    /\ stats = NoStats
    /\ result = NoResult
    /\ probe \in [done : {FALSE}, score : ProbeScores, recompute : {""},
                  override : {""}]

classify ==
    /\ ~probe.done
    /\ probe' = [done |-> TRUE, score |-> probe.score,
                 recompute |-> StatusCaseRecompute(probe.score),
                 override |-> StatusCaseOverride(probe.score)]
    /\ UNCHANGED <<users, restaurants, orders, credit_history,
                   customer_feedback, admin_actions, session, response,
                   faults, stats, result, conns, returned>>

NextTier == classify

SpecTier == InitTier /\ [][NextTier]_vars

----------------------------------------------------------------------------
(* update_user_credit_score called on its own with a drawn user id, on a   *)
(* database holding the admin, a customer, a restaurant user and at most   *)
(* one order                                                               *)

UpdaterScores == {0, 29, 35, 49, 70, 89, 100}
UpdaterFaults == {"none", "calc", "update"}

UpdaterOrders ==
    {<<>>} \cup
    {<<[NewOrder(2, 1, "completed", 70) EXCEPT !.status = st]>> :
        st \in {"pending", "cancelled"}}

InitUpdater ==
    /\ \E score \in UpdaterScores :
          users = (1 :> AdminSeed)
                     @@ (2 :> RecomputeWrite(RegisteredUser("customer"), score))
                     @@ (3 :> RegisteredUser("restaurant"))
    /\ restaurants = <<3>>
    /\ orders \in UpdaterOrders
    /\ credit_history = <<>>
    /\ customer_feedback = <<>>
    /\ admin_actions = <<>>
    /\ session = [u \in UserIds |-> NoSession]
    /\ response = NoResponse
    /\ faults = 0
    /\ conns = NoConns
    /\ returned = NoReturn
    /\ stats = NoStats
    /\ result = NoResult
    /\ probe = NoProbe

\* lines 125-151 as one call: the UPDATE users ... WHERE id = user_id writes
\* the row of user_id if there is one, and the call returns the score, or
\* None when the UPDATE raised
call_update_user_credit_score(user_id, fault) ==
    /\ ~returned.called
    /\ Raises(fault, TRUE)
    /\ LET score == update_user_credit_score(orders, user_id, fault)
       IN  IF fault = "update"
           THEN /\ returned' = [called |-> TRUE, user_id |-> user_id,
                                score |-> Null]
                /\ UNCHANGED users
           ELSE /\ returned' = [called |-> TRUE, user_id |-> user_id,
                                score |-> <<score>>]
                /\ users' = [t \in DOMAIN users |->
                                IF t = user_id
                                THEN RecomputeWrite(users[t], score)
                                ELSE users[t]]
    /\ UNCHANGED <<restaurants, orders, credit_history, customer_feedback,
                   admin_actions, session, response, stats, result, probe,
                   conns>>

NextUpdater ==
    \E user_id \in 1..(MaxUsers + 1), fault \in UpdaterFaults :
        call_update_user_credit_score(user_id, fault)

SpecUpdater == InitUpdater /\ [][NextUpdater]_vars

----------------------------------------------------------------------------
(* Requests in flight together.  Every request has its own connection and  *)
(* transaction (flask_mysqldb keeps the connection in the application      *)
(* context); a step is one statement.  Storage is InnoDB (the schema       *)
(* declares foreign keys) at its default isolation level: a plain SELECT   *)
(* reads the snapshot taken at the first read of the transaction plus the  *)
(* transaction's own writes and takes no lock; an UPDATE works on the      *)
(* latest committed row and waits while another transaction holds an       *)
(* uncommitted write of that row; a commit publishes the writes and        *)
(* releases the locks.                                                     *)

ConnIds == 1..MaxConns

tables == <<users, orders, credit_history, customer_feedback, admin_actions>>
fixed == <<restaurants, session, faults, stats, result, probe, returned>>

NoTx == [users |-> <<>>, orders |-> <<>>, credit_history |-> <<>>,
         customer_feedback |-> <<>>, admin_actions |-> <<>>]

Idle == [handler |-> "", pc |-> "idle", user |-> 0, user_id |-> 0,
         score |-> 0, order_id |-> 0, rating |-> 0, order |-> Null,
         old_score |-> Null, new_score |-> Null, snapshot |-> Null,
         tx |-> NoTx]

\* the database with the admin, customer 2 and restaurant user 3 logged in
\* and one pending order of customer 2 at restaurant 1
ConcStart ==
    /\ users = (1 :> AdminSeed) @@ (2 :> RegisteredUser("customer"))
                  @@ (3 :> RegisteredUser("restaurant"))
    /\ restaurants = <<3>>
    /\ orders = <<NewOrder(2, 1, "completed", DEFAULT_CREDIT_SCORE)>>
    /\ credit_history = <<>>
    /\ customer_feedback = <<>>
    /\ admin_actions = <<>>
    /\ session = [u \in UserIds |->
                     IF u \in 1..3
                     THEN [logged_in |-> TRUE, logins |-> 1,
                           role |-> users[u].role,
                           credit_score |-> users[u].credit_score,
                           credit_status |-> users[u].credit_status]
                     ELSE NoSession]

InitConc ==
    /\ ConcStart
    /\ response = NoResponse
    /\ faults = 0
    /\ conns = [c \in ConnIds |-> Idle]
    /\ returned = NoReturn
    /\ stats = NoStats
    /\ result = NoResult
    /\ probe = NoProbe

\* no other transaction holds an uncommitted write of the row
RowFree(c, table, key) ==
    \A d \in ConnIds \ {c} : key \notin DOMAIN conns[d].tx[table]

\* the orders a SELECT of connection c reads
SeenOrders(c) ==
    LET base == IF conns[c].snapshot = Null THEN orders
                ELSE conns[c].snapshot[1]
    IN  [i \in DOMAIN base |->
            IF i \in DOMAIN conns[c].tx.orders THEN conns[c].tx.orders[i]
            ELSE base[i]]

CommitRowsEvery(table, pending) ==
    [k \in DOMAIN table |->
        IF DOMAIN pending # {}
        THEN pending[CHOOSE x \in DOMAIN pending : TRUE]
        ELSE table[k]]

\* conn.commit(): the pending row updates replace the stored rows
CommitRows(table, pending) ==
    [k \in DOMAIN table |->
        IF k \in DOMAIN pending THEN pending[k] ELSE table[k]]

\* conn.commit() of connection c, which goes on at position pc
Commit(c, pc) ==
    LET tx == conns[c].tx
    IN  /\ users' = CommitRows(users, tx.users)
        /\ orders' = CommitRows(orders, tx.orders)
        /\ credit_history' = credit_history \o tx.credit_history
        /\ customer_feedback' = customer_feedback \o tx.customer_feedback
        /\ admin_actions' = admin_actions \o tx.admin_actions
        /\ conns' = [conns EXCEPT ![c].tx = NoTx, ![c].snapshot = Null,
                                  ![c].pc = pc]

At(c, handler, pc) == conns[c].handler = handler /\ conns[c].pc = pc

\* the request ends early with a JSON answer; nothing was written
Answer(c, message) ==
    /\ conns' = [conns EXCEPT ![c].pc = "done", ![c].snapshot = Null]
    /\ response' = Failure(message)

\* admin_update_credit_score, lines 1961-1969: the request arrives
receive_admin_update_credit_score(c, u, user_id, score) ==
    /\ conns[c].pc = "idle"
    /\ LoggedIn(u, "admin")
    /\ conns' = [conns EXCEPT ![c] =
                    [Idle EXCEPT !.handler = "admin_update_credit_score",
                                 !.pc = "select_current", !.user = u,
                                 !.user_id = user_id,
                                 !.score = safe_int(<<score>>)]]
    /\ UNCHANGED <<tables, fixed, response>>

\* lines 1971-1979
admin_select_current(c) ==
    /\ At(c, "admin_update_credit_score", "select_current")
    /\ IF conns[c].user_id \notin DOMAIN users
       THEN Answer(c, "User not found")
       ELSE /\ conns' = [conns EXCEPT
                  ![c].old_score =
                      <<safe_int(<<users[conns[c].user_id].credit_score>>)>>,
                  ![c].snapshot = <<orders>>,
                  ![c].pc = "update_users"]
            /\ UNCHANGED response
    /\ UNCHANGED <<tables, fixed>>

\* lines 1981-1994
admin_update_users(c) ==
    /\ At(c, "admin_update_credit_score", "update_users")
    /\ RowFree(c, "users", conns[c].user_id)
    /\ LET t == conns[c].user_id
       IN  conns' = [conns EXCEPT
               ![c].tx.users = (t :> OverrideWrite(users[t], conns[c].score))
                                  @@ conns[c].tx.users,
               ![c].pc = "insert_history"]
    /\ UNCHANGED <<tables, fixed, response>>

\* lines 1996-2001
admin_insert_history(c) ==
    /\ At(c, "admin_update_credit_score", "insert_history")
    /\ conns' = [conns EXCEPT
           ![c].tx.credit_history =
               Append(conns[c].tx.credit_history,
                      HistoryRow(conns[c].user_id, conns[c].old_score[1],
                                 conns[c].score, "admin", Null)),
           ![c].pc = "insert_admin_action"]
    /\ UNCHANGED <<tables, fixed, response>>

\* lines 2003-2010
admin_insert_admin_action(c) ==
    /\ At(c, "admin_update_credit_score", "insert_admin_action")
    /\ conns' = [conns EXCEPT
           ![c].tx.admin_actions =
               Append(conns[c].tx.admin_actions,
                      [admin_id |-> conns[c].user,
                       action_type |-> "update_credit_score",
                       target_id |-> conns[c].user_id,
                       old_score |-> conns[c].old_score[1],
                       new_score |-> conns[c].score]),
           ![c].pc = "commit"]
    /\ UNCHANGED <<tables, fixed, response>>

\* cancel_order, lines 2206-2214: the request arrives
receive_cancel_order(c, u, order_id) ==
    /\ conns[c].pc = "idle"
    /\ session[u].logged_in
    /\ session[u].role \in CancelledByEnum
    /\ conns' = [conns EXCEPT ![c] =
                    [Idle EXCEPT !.handler = "cancel_order",
                                 !.pc = "select_order", !.user = u,
                                 !.order_id = order_id]]
    /\ UNCHANGED <<tables, fixed, response>>

\* lines 2216-2235
cancel_select_order(c) ==
    /\ At(c, "cancel_order", "select_order")
    /\ LET o == conns[c].order_id
           u == conns[c].user
       IN  IF o \notin 1..Len(orders)
           THEN Answer(c, "Order not found")
           ELSE IF /\ session[u].role # "admin"
                   /\ orders[o].user_id # u
                   /\ restaurants[orders[o].restaurant_id] # u
           THEN Answer(c, "Unauthorized")
           ELSE /\ conns' = [conns EXCEPT ![c].order = <<orders[o]>>,
                                          ![c].snapshot = <<orders>>,
                                          ![c].pc = "update_order"]
                /\ UNCHANGED response
    /\ UNCHANGED <<tables, fixed>>

\* lines 2237-2248
cancel_update_order(c) ==
    /\ At(c, "cancel_order", "update_order")
    /\ RowFree(c, "orders", conns[c].order_id)
    /\ LET o == conns[c].order_id
           role == session[conns[c].user].role
       IN  conns' = [conns EXCEPT
               ![c].tx.orders =
                   (o :> [orders[o] EXCEPT !.status = "cancelled",
                                           !.cancelled_by = <<role>>])
                      @@ conns[c].tx.orders,
               ![c].pc = IF role = "customer" THEN "calculate" ELSE "commit"]
    /\ UNCHANGED <<tables, fixed, response>>

\* submit_customer_feedback, lines 1894-1903: the request arrives
receive_submit_customer_feedback(c, u, order_id, rating) ==
    /\ conns[c].pc = "idle"
    /\ LoggedIn(u, "restaurant")
    /\ conns' = [conns EXCEPT ![c] =
                    [Idle EXCEPT !.handler = "submit_customer_feedback",
                                 !.pc = "select_order", !.user = u,
                                 !.order_id = order_id, !.rating = rating]]
    /\ UNCHANGED <<tables, fixed, response>>

\* lines 1908-1924
feedback_select_order(c) ==
    /\ At(c, "submit_customer_feedback", "select_order")
    /\ IF \A r \in 1..Len(restaurants) : restaurants[r] # conns[c].user
       THEN Answer(c, "Restaurant not found")
       ELSE IF conns[c].order_id \notin 1..Len(orders)
       THEN Answer(c, "Order not found")
       ELSE /\ conns' = [conns EXCEPT
                  ![c].order = <<orders[conns[c].order_id]>>,
                  ![c].snapshot = <<orders>>,
                  ![c].pc = "insert_feedback"]
            /\ UNCHANGED response
    /\ UNCHANGED <<tables, fixed>>

\* lines 1926-1935
feedback_insert_feedback(c) ==
    /\ At(c, "submit_customer_feedback", "insert_feedback")
    /\ LET u == conns[c].user
           restaurant_id == CHOOSE r \in 1..Len(restaurants) :
                               restaurants[r] = u
           rating == conns[c].rating
       IN  conns' = [conns EXCEPT
               ![c].tx.customer_feedback =
                   Append(conns[c].tx.customer_feedback,
                          [restaurant_id |-> restaurant_id,
                           user_id |-> conns[c].order[1].user_id,
                           order_id |-> conns[c].order_id,
                           politeness_rating |-> rating,
                           pickup_punctuality |-> rating,
                           order_authenticity |-> rating]),
               ![c].pc = "calculate"]
    /\ UNCHANGED <<tables, fixed, response>>

Recomputing(c) ==
    conns[c].handler \in {"cancel_order", "submit_customer_feedback"}

\* update_user_credit_score, line 127: the aggregate SELECT and the rule
score_calculate(c) ==
    /\ Recomputing(c) /\ conns[c].pc = "calculate"
    /\ conns' = [conns EXCEPT
           ![c].new_score =
               <<calculate_credit_score(SeenOrders(c),
                                        conns[c].order[1].user_id, FALSE)>>,
           ![c].pc = "update_users"]
    /\ UNCHANGED <<tables, fixed, response>>

\* update_user_credit_score, lines 131-144
score_update_users(c) ==
    /\ Recomputing(c) /\ conns[c].pc = "update_users"
    /\ RowFree(c, "users", conns[c].order[1].user_id)
    /\ LET t == conns[c].order[1].user_id
       IN  conns' = [conns EXCEPT
               ![c].tx.users =
                   (t :> RecomputeWrite(users[t], conns[c].new_score[1]))
                      @@ conns[c].tx.users,
               ![c].pc = "commit_score"]
    /\ UNCHANGED <<tables, fixed, response>>

\* update_user_credit_score, lines 145-146
score_commit(c) ==
    /\ Recomputing(c) /\ conns[c].pc = "commit_score"
    /\ Commit(c, "insert_history")
    /\ UNCHANGED <<fixed, response>>

\* the INSERT INTO credit_history of cancel_order (2251-2257) and of
\* submit_customer_feedback (1940-1947)
recompute_insert_history(c) ==
    /\ Recomputing(c) /\ conns[c].pc = "insert_history"
    /\ LET cancel == conns[c].handler = "cancel_order"
           old_score == IF cancel
                        THEN safe_int(conns[c].order[1].customer_credit_score)
                        ELSE session[conns[c].user].credit_score
       IN  conns' = [conns EXCEPT
               ![c].tx.credit_history =
                   Append(conns[c].tx.credit_history,
                          HistoryRow(conns[c].order[1].user_id, old_score,
                                     conns[c].new_score[1],
                                     IF cancel THEN "system" ELSE "restaurant",
                                     <<conns[c].order_id>>)),
               ![c].pc = "commit"]
    /\ UNCHANGED <<tables, fixed, response>>

\* the conn.commit() and the success answer that end each handler
\* (1949-1951, 2012-2014, 2265-2267)
request_commit(c) ==
    /\ conns[c].pc = "commit"
    /\ Commit(c, "done")
    /\ response' = Ok
    /\ UNCHANGED fixed

NextConc ==
    \/ \E c \in ConnIds, u \in UserIds, t \in 1..(MaxUsers + 1),
          s \in OverrideScores : receive_admin_update_credit_score(c, u, t, s)
    \/ \E c \in ConnIds : admin_select_current(c)
    \/ \E c \in ConnIds : admin_update_users(c)
    \/ \E c \in ConnIds : admin_insert_history(c)
    \/ \E c \in ConnIds : admin_insert_admin_action(c)
    \/ \E c \in ConnIds, u \in UserIds, o \in 1..(MaxOrders + 1) :
          receive_cancel_order(c, u, o)
    \/ \E c \in ConnIds : cancel_select_order(c)
    \/ \E c \in ConnIds : cancel_update_order(c)
    \/ \E c \in ConnIds, u \in UserIds, o \in 1..(MaxOrders + 1),
          r \in Ratings : receive_submit_customer_feedback(c, u, o, r)
    \/ \E c \in ConnIds : feedback_select_order(c)
    \/ \E c \in ConnIds : feedback_insert_feedback(c)
    \/ \E c \in ConnIds : score_calculate(c)
    \/ \E c \in ConnIds : score_update_users(c)
    \/ \E c \in ConnIds : score_commit(c)
    \/ \E c \in ConnIds : recompute_insert_history(c)
    \/ \E c \in ConnIds : request_commit(c)

SpecConc == InitConc /\ [][NextConc]_vars

----------------------------------------------------------------------------
(* Two restaurants.  The handlers on a database with the admin, customer   *)
(* 2 and the owners 3 and 4 of restaurants 1 and 2, everybody logged in.   *)

OwnerIds == 1..(MaxUsers + 1)

InitOwners ==
    /\ users = (1 :> AdminSeed) @@ (2 :> RegisteredUser("customer"))
                  @@ (3 :> RegisteredUser("restaurant"))
                  @@ (4 :> RegisteredUser("restaurant"))
    /\ restaurants = <<3, 4>>
    /\ orders = <<>>
    /\ credit_history = <<>>
    /\ customer_feedback = <<>>
    /\ admin_actions = <<>>
    /\ session = [u \in OwnerIds |->
                     IF u \in 1..4
                     THEN [logged_in |-> TRUE, logins |-> 1,
                           role |-> users[u].role,
                           credit_score |-> users[u].credit_score,
                           credit_status |-> users[u].credit_status]
                     ELSE NoSession]
    /\ response = NoResponse
    /\ faults = 0
    /\ conns = NoConns
    /\ returned = NoReturn
    /\ stats = NoStats
    /\ result = NoResult
    /\ probe = NoProbe

NextOwners ==
    \/ \E u \in OwnerIds, r \in 1..2 : create_order(u, r)
    \/ \E u \in OwnerIds, o \in 1..MaxOrders, s \in StatusInputs,
          strict \in BOOLEAN : update_order_status(u, o, s, strict)
    \/ \E u \in OwnerIds, o \in 1..MaxOrders, f \in Faults, strict \in BOOLEAN :
          cancel_order(u, o, f, strict)
    \/ \E u \in OwnerIds, o \in 1..MaxOrders, r \in Ratings, f \in Faults :
          submit_customer_feedback(u, o, r, f)

SpecOwners == InitOwners /\ [][NextOwners]_vars

----------------------------------------------------------------------------
(* Reading the ledger.  credit_history.created_at is a TIMESTAMP DEFAULT   *)
(* CURRENT_TIMESTAMP: it has the resolution of one second and never goes   *)
(* back.  get_user_stats orders by created_at only, so the order among     *)
(* rows of the same second is whatever the server's plan yields: TieOrders *)
(* names the two outcomes kept here, insertion order and its reverse.      *)

HISTORY_LIMIT == 10
LedgerUsers == {2, 3}
TieOrders == {"insertion", "reverse"}

InitStats ==
    /\ users = (1 :> AdminSeed) @@ (2 :> RegisteredUser("customer"))
                  @@ (3 :> RegisteredUser("restaurant"))
    /\ restaurants = <<3>>
    /\ orders = <<>>
    /\ credit_history = <<>>
    /\ customer_feedback = <<>>
    /\ admin_actions = <<>>
    /\ session = [u \in UserIds |->
                     IF u \in 1..3
                     THEN [logged_in |-> TRUE, logins |-> 1,
                           role |-> users[u].role,
                           credit_score |-> users[u].credit_score,
                           credit_status |-> users[u].credit_status]
                     ELSE NoSession]
    /\ response = NoResponse
    /\ faults = 0
    /\ conns = NoConns
    /\ returned = NoReturn
    /\ stats = NoStats
    /\ result = NoResult
    /\ probe = NoProbe

\* a score change of user_id writes its ledger row (the INSERT INTO
\* credit_history of lines 1996-2001, here of an override that sets the
\* stored score again) in a second not before the newest row's
insert_credit_history(user_id, second) ==
    /\ Len(credit_history) < MaxLedger
    /\ Len(credit_history) > 0
          => second >= credit_history[Len(credit_history)].created_at
    /\ LET score == users[user_id].credit_score
       IN  credit_history' =
               InsertHistory(credit_history,
                   HistoryRow(user_id, score, score, "admin", Null)
                      @@ [created_at |-> second])
    /\ response' = Ok
    /\ UNCHANGED <<users, restaurants, orders, customer_feedback,
                   admin_actions, session, faults, stats, result, probe,
                   conns, returned>>

\* SELECT * FROM credit_history WHERE user_id = %s ORDER BY created_at DESC
\* LIMIT 10 (lines 2309-2314): the rows of the user, later seconds first
RecentHistory(table, user_id, ties) ==
    LET idx == {i \in 1..Len(table) : table[i].user_id = user_id}
        Before(j, i) ==
            \/ table[j].created_at > table[i].created_at
            \/ /\ table[j].created_at = table[i].created_at
               /\ IF ties = "insertion" THEN j < i ELSE j > i
        place(i) == 1 + Cardinality({j \in idx : Before(j, i)})
        length == Min(Cardinality(idx), HISTORY_LIMIT)
    IN  [k \in 1..length |->
            LET i == CHOOSE x \in idx : place(x) = k
            IN  [id |-> i] @@ table[i]]

\* get_user_stats, lines 2275-2333
get_user_stats(u, ties) ==
    /\ session[u].logged_in
    /\ response' = [stats |-> [credit_score |-> safe_int(<<users[u].credit_score>>),
                               credit_status |-> users[u].credit_status],
                    history |-> RecentHistory(credit_history, u, ties)]
    /\ UNCHANGED <<users, restaurants, orders, credit_history,
                   customer_feedback, admin_actions, session, faults, stats,
                   result, probe, conns, returned>>

NextStats ==
    \/ \E t \in LedgerUsers, second \in 1..MaxSeconds :
          insert_credit_history(t, second)
    \/ \E u \in UserIds, ties \in TieOrders : get_user_stats(u, ties)

SpecStats == InitStats /\ [][NextStats]_vars

----------------------------------------------------------------------------
(* Properties                                                              *)

\* the tier of a score under the fixed thresholds 90, 75, 50, 30
TierOfScore(score) ==
    CASE score >= 90 -> "trusted"
      [] score >= 75 /\ score < 90 -> "good"
      [] score >= 50 /\ score < 75 -> "average"
      [] score >= 30 /\ score < 50 -> "risky"
      [] score < 30 -> "blocked"

\* the most recent credit_history row of a user in table h (<<>> if none)
LastEntryOf(h, user_id) ==
    LET idx == {i \in 1..Len(h) : h[i].user_id = user_id}
    IN  IF idx = {} THEN <<>>
        ELSE <<h[CHOOSE i \in idx : \A j \in idx : j <= i]>>

\* C1: in every reachable state every user's stored credit_score lies in
\* 0..100, whatever registrations, recomputes and admin overrides happened,
\* overrides with a requested score outside 0..100 included.
C1_StoredScoreInRange ==
    \A u \in DOMAIN users : users[u].credit_score \in 0..100

\* C2: in every reachable state every user's stored credit_status is the
\* tier of that user's stored credit_score under the thresholds 90/75/50/30
\* (so no write leaves a status that disagrees with the score, and none
\* changes the status alone).
C2_StatusIsTierOfScore ==
    \A u \in DOMAIN users :
        users[u].credit_status = TierOfScore(users[u].credit_score)

\* a customer whose score was recomputed into the risky tier next to a user
\* whose score was overridden
C2_Witness ==
    /\ \E i \in 1..Len(credit_history) :
          /\ credit_history[i].triggered_by = "system"
          /\ users[credit_history[i].user_id].credit_status = "risky"
    /\ \E i \in 1..Len(credit_history) :
          /\ credit_history[i].triggered_by = "admin"
          /\ users[credit_history[i].user_id].credit_score
                = credit_history[i].new_score

\* C3: for every aggregate row, extreme ones included, the computed score
\* is an integer in 0..100.
C3_ComputedScoreInRange ==
    result.done => result.score \in 0..100

\* 1000 failed payments of a user with orders: clamped to 0
C3_Witness ==
    /\ result.done
    /\ safe_int(stats.total_orders) > 0
    /\ stats.failed_payments = <<1000>>
    /\ result.score = 0

\* C4: with total_orders = 0 the computed score is exactly 70, whatever the
\* other fields of the row.
C4_NoOrdersGivesDefault ==
    (result.done /\ safe_int(stats.total_orders) = 0) => result.score = 70

\* no orders, yet every other field set to a value that would move the score
C4_Witness ==
    /\ result.done
    /\ stats.total_orders = <<0>>
    /\ stats.completed_orders = <<MaxStatOrders>>
    /\ stats.cancelled_orders = <<MaxStatOrders>>
    /\ stats.failed_payments = <<1000>>
    /\ stats.avg_restaurant_feedback = <<15, 1>>
    /\ stats.avg_delivery_feedback = <<45, 1>>

\* the rule of the specification, on a row with NULLs read as 0 and 0.0
ReferenceAdjustments(row, with_feedback) ==
    LET t == IF row.total_orders = Null THEN 0 ELSE row.total_orders[1]
        c == IF row.completed_orders = Null THEN 0 ELSE row.completed_orders[1]
        x == IF row.cancelled_orders = Null THEN 0 ELSE row.cancelled_orders[1]
        f == IF row.failed_payments = Null THEN 0 ELSE row.failed_payments[1]
        rf == IF row.avg_restaurant_feedback = Null THEN <<0, 1>>
              ELSE row.avg_restaurant_feedback
        df == IF row.avg_delivery_feedback = Null THEN <<0, 1>>
              ELSE row.avg_delivery_feedback
        completion == CASE 100 * c > 90 * t -> 10
                        [] 100 * c <= 90 * t /\ 100 * c > 70 * t -> 5
                        [] OTHER -> 0
        cancellation == CASE 100 * x > 30 * t -> -20
                          [] 100 * x <= 30 * t /\ 100 * x > 10 * t -> -10
                          [] OTHER -> 0
        payment == 0 - 5 * f
        restaurant == CASE rf[1] > 40 * rf[2] -> 5
                        [] rf[1] < 20 * rf[2] -> -10
                        [] OTHER -> 0
        delivery == CASE df[1] > 40 * df[2] -> 3
                      [] df[1] < 20 * df[2] -> -5
                      [] OTHER -> 0
    IN  70 + completion + cancellation + payment
           + (IF with_feedback THEN restaurant + delivery ELSE 0)

ReferenceClamp(sum) == IF sum < 0 THEN 0 ELSE IF sum > 100 THEN 100 ELSE sum

\* C5: for every row with total_orders > 0 the computed score is the
\* reference rule: 70, +10/+5 by completion rate (> 0.9 / > 0.7), -20/-10
\* by cancellation rate (> 0.3 / > 0.1), -5 per failed payment, +5/-10 by
\* restaurant feedback (> 4.0 / < 2.0), +3/-5 by delivery feedback
\* (> 4.0 / < 2.0), clamped to 0..100.
C5_ScoreIsReferenceRule ==
    (result.done /\ safe_int(stats.total_orders) > 0)
        => result.score = ReferenceClamp(ReferenceAdjustments(stats, TRUE))

\* every rule contributes: 8 of 10 completed, 2 cancelled, one failed
\* payment, restaurant feedback exactly 4.0, delivery feedback 1.0
C5_Witness ==
    /\ result.done
    /\ stats.total_orders = <<10>>
    /\ stats.completed_orders = <<8>>
    /\ stats.cancelled_orders = <<2>>
    /\ stats.failed_payments = <<1>>
    /\ stats.avg_restaurant_feedback = <<40, 1>>
    /\ stats.avg_delivery_feedback = <<10, 1>>
    /\ result.score = 55

\* C6: a user with at least one order and no feedback (both averages NULL)
\* gets neither a feedback bonus nor a feedback penalty: the score is the
\* one of the completion, cancellation and payment rules alone.
C6_NoFeedbackNoAdjustment ==
    (/\ result.done
     /\ safe_int(stats.total_orders) > 0
     /\ stats.avg_restaurant_feedback = Null
     /\ stats.avg_delivery_feedback = Null)
        => result.score = ReferenceClamp(ReferenceAdjustments(stats, FALSE))

Scenario83 ==
    [total_orders |-> <<10>>, completed_orders |-> <<9>>,
     cancelled_orders |-> <<0>>, failed_payments |-> <<0>>,
     avg_restaurant_feedback |-> <<45, 1>>, avg_delivery_feedback |-> <<42, 1>>]

Scenario25 ==
    [total_orders |-> <<10>>, completed_orders |-> <<5>>,
     cancelled_orders |-> <<4>>, failed_payments |-> <<2>>,
     avg_restaurant_feedback |-> <<15, 1>>, avg_delivery_feedback |-> <<10, 1>>]

\* C7: the thresholds are strict and the adjustments add up: 9 of 10
\* completed with feedback 4.5 and 4.2 gives 83 (good); 5 of 10 completed,
\* 4 cancelled, 2 failed payments, feedback 1.5 and 1.0 gives 25 (blocked).
C7_Scenarios ==
    /\ (result.done /\ stats = Scenario83)
          => (result.score = 83 /\ result.status = "good")
    /\ (result.done /\ stats = Scenario25)
          => (result.score = 25 /\ result.status = "blocked")

C7_Witness == result.done /\ stats = Scenario83 /\ result.score = 83

\* the tiers whose range in CREDIT_SCORE_RANGES contains the score
TiersContaining(score) ==
    {t \in Tiers : CREDIT_SCORE_RANGES[t][1] <= score
                   /\ score <= CREDIT_SCORE_RANGES[t][2]}

\* C8: on 0..100 the status CASE of the write paths is total, every score
\* lies in exactly one range of CREDIT_SCORE_RANGES and is mapped to that
\* tier (boundaries 29/30, 49/50, 74/75, 89/90), and the CASE of
\* update_user_credit_score and the CASE of admin_update_credit_score agree.
C8_CasePartitionsRanges ==
    (probe.done /\ probe.score \in 0..100)
        => /\ probe.recompute \in Tiers
           /\ TiersContaining(probe.score) = {probe.recompute}
           /\ probe.override = probe.recompute

C8_Witness ==
    /\ probe.done
    /\ probe.score = 75
    /\ probe.recompute = "good"
    /\ probe.override = "good"

\* C9: an admin override requesting a score outside 0..100 stores the
\* clamped score: 150 stores 100 with status trusted and appends a ledger
\* row with new_score 100 and change_amount 100 - old score; a negative
\* request stores 0.
C9_OverrideStoresClampedScore ==
    [][\A u \in UserIds, t \in UserIds, s \in OverrideScores :
          (admin_update_credit_score(u, t, s, "none") /\ response'.success)
              => LET clamped == ReferenceClamp(s)
                     entry == credit_history'[Len(credit_history')]
                 IN  /\ users'[t].credit_score = clamped
                     /\ users'[t].credit_status = TierOfScore(clamped)
                     /\ entry.user_id = t
                     /\ entry.new_score = clamped
                     /\ entry.change_amount = clamped - users[t].credit_score
      ]_vars

\* the most recent ledger row of the user carries the stored score
LedgerMatchesScore(user_id) ==
    /\ LastEntryOf(credit_history, user_id) # <<>>
    /\ LastEntryOf(credit_history, user_id)[1].new_score
          = users[user_id].credit_score

\* C10: after a successful recompute (cancel_order by the customer,
\* submit_customer_feedback) or a successful admin override, the most
\* recent credit_history row of the affected user has new_score equal to
\* that user's stored credit_score.
C10_LedgerMatchesScoreAfterWrite ==
    [][response'.success =>
         /\ \A u \in UserIds, o \in 1..MaxOrders, f \in Faults, strict \in BOOLEAN :
               (/\ session[u].role = "customer"
                /\ cancel_order(u, o, f, strict))
                   => LedgerMatchesScore(orders[o].user_id)'
         /\ \A u \in UserIds, o \in 1..MaxOrders, r \in Ratings, f \in Faults :
               submit_customer_feedback(u, o, r, f)
                   => LedgerMatchesScore(orders[o].user_id)'
         /\ \A u \in UserIds, t \in UserIds, s \in OverrideScores,
               f \in OverrideFaults :
               admin_update_credit_score(u, t, s, f)
                   => LedgerMatchesScore(t)'
      ]_vars

\* a feedback recompute after an earlier score change of the same customer:
\* the newest row, written by the restaurant's request, carries the stored score
C10_Witness ==
    /\ response.success
    /\ Len(credit_history) >= 2
    /\ LET last == credit_history[Len(credit_history)]
           first == credit_history[1]
       IN  /\ last.triggered_by = "restaurant"
           /\ first.user_id = last.user_id
           /\ first.new_score # last.new_score
           /\ users[last.user_id].credit_score = last.new_score

\* the rows a step appends to credit_history
Appended == (Len(credit_history) + 1)..Len(credit_history')

\* C11: the score update and the credit_history append of one score change
\* are committed together or not at all: a request that leaves a user's
\* stored score changed leaves a new credit_history row of that user with
\* that new_score (also when the ledger INSERT fails after
\* update_user_credit_score), and a request that leaves a new row leaves the
\* row's user with the row's new_score.
C11_ScoreAndLedgerTogether ==
    [][/\ \A t \in DOMAIN users :
             users'[t].credit_score # users[t].credit_score
                 => \E i \in Appended :
                       /\ credit_history'[i].user_id = t
                       /\ credit_history'[i].new_score = users'[t].credit_score
       /\ \A i \in Appended :
             users'[credit_history'[i].user_id].credit_score
                 = credit_history'[i].new_score
      ]_vars

\* C12: every credit_history row records as old_score the stored
\* credit_score its user had immediately before the request that wrote the
\* row (hence each row's old_score is the new_score of the user's row
\* before it, and 70 for the first row of a registered user).
C12_OldScoreIsStoredScore ==
    [][\A i \in Appended :
          credit_history'[i].old_score
              = users[credit_history'[i].user_id].credit_score
      ]_vars

\* C13: every credit_history row, whichever path wrote it (feedback,
\* cancellation, admin override), has change_amount = new_score - old_score.
C13_ChangeIsNewMinusOld ==
    \A i \in 1..Len(credit_history) :
        credit_history[i].change_amount
            = credit_history[i].new_score - credit_history[i].old_score

\* two rows written by different paths, both with a change other than 0
C13_Witness ==
    \E i, j \in 1..Len(credit_history) :
        /\ credit_history[i].triggered_by # credit_history[j].triggered_by
        /\ credit_history[i].change_amount # 0
        /\ credit_history[j].change_amount # 0
        /\ credit_history[i].change_amount # credit_history[j].change_amount

\* the user's newest ledger row was written by a recompute, carries the
\* stored score, and the orders still give that score: the state right
\* after a recompute with no order activity since
JustRecomputed(user_id) ==
    LET last == LastEntryOf(credit_history, user_id)
    IN  /\ last # <<>>
        /\ last[1].triggered_by \in {"system", "restaurant"}
        /\ last[1].new_score = users[user_id].credit_score
        /\ calculate_credit_score(orders, user_id, FALSE)
              = users[user_id].credit_score

\* C14: a recompute that follows a recompute of the same user with no order
\* activity in between stores the same score again and appends a
\* credit_history row with change_amount = 0.
C14_RepeatedRecomputeIsNoChange ==
    [][\A u \in UserIds, o \in 1..MaxOrders, r \in Ratings :
          (/\ o \in 1..Len(orders)
           /\ JustRecomputed(orders[o].user_id)
           /\ submit_customer_feedback(u, o, r, "none"))
              => /\ users'[orders[o].user_id].credit_score
                       = users[orders[o].user_id].credit_score
                 /\ Len(credit_history') = Len(credit_history) + 1
                 /\ credit_history'[Len(credit_history')].change_amount = 0
      ]_vars

\* C18: when the aggregate query of a recompute fails, the stored
\* credit_score and credit_status of every user stay as they were and the
\* request does not fail.
C18_CalcFailureLeavesScore ==
    [][(\/ \E u \in UserIds, o \in 1..MaxOrders, strict \in BOOLEAN :
              cancel_order(u, o, "calc", strict)
        \/ \E u \in UserIds, o \in 1..MaxOrders, r \in Ratings :
              submit_customer_feedback(u, o, r, "calc"))
          => /\ \A t \in DOMAIN users :
                   /\ users'[t].credit_score = users[t].credit_score
                   /\ users'[t].credit_status = users[t].credit_status
             /\ response'.success
      ]_vars

\* C19: a customer's cancellation completes when credit scoring fails: if
\* the aggregate query or the UPDATE users fails inside cancel_order, the
\* order ends committed with status cancelled and the request reports success.
C19_CancellationSurvivesScoringFailure ==
    [][\A u \in UserIds, o \in 1..MaxOrders, f \in {"calc", "update"},
          strict \in BOOLEAN :
          cancel_order(u, o, f, strict)
              => /\ orders'[o].status = "cancelled"
                 /\ response'.success
      ]_vars

\* C20: when the UPDATE users of a recompute or of an override fails, the
\* request reports the failure, every stored score and status keeps its
\* previous value, and no credit_history row is appended.
C20_FailedWriteKeepsScore ==
    [][(\/ \E u \in UserIds, o \in 1..MaxOrders, strict \in BOOLEAN :
              cancel_order(u, o, "update", strict)
        \/ \E u \in UserIds, o \in 1..MaxOrders, r \in Ratings :
              submit_customer_feedback(u, o, r, "update")
        \/ \E u \in UserIds, t \in UserIds, s \in OverrideScores :
              admin_update_credit_score(u, t, s, "update"))
          => /\ ~response'.success
             /\ users' = users
             /\ credit_history' = credit_history
      ]_vars

\* a customer overridden to 40 whose next recompute failed at the UPDATE
\* users: the request answered the failure, the score is still 40 and the
\* override's row is still the only one
C20_Witness ==
    /\ response = NoneMinusInt
    /\ faults = 1
    /\ Len(credit_history) = 1
    /\ credit_history[1].triggered_by = "admin"
    /\ credit_history[1].new_score = 40
    /\ users[credit_history[1].user_id].role = "customer"
    /\ users[credit_history[1].user_id].credit_score = 40
    /\ users[credit_history[1].user_id].credit_status = "risky"

\* C15: score changes of one user are serializable.  In every serial order
\* of the units an override's credit_history row carries as old_score the
\* score that the override's write replaces; so no override commits a row
\* whose old_score is not the stored score at its commit, which is what
\* happens when another unit of the same user writes between the
\* override's read and its commit (both units read the same old score, the
\* ledger gets two rows with that old_score and different new_scores, and
\* the other unit's score is overwritten unseen).
C15_OverrideUnitIsSerial ==
    [][\A c \in ConnIds :
          (/\ At(c, "admin_update_credit_score", "commit")
           /\ request_commit(c))
              => \A i \in 1..Len(conns[c].tx.credit_history) :
                    conns[c].tx.credit_history[i].old_score
                        = users[conns[c].tx.credit_history[i].user_id].credit_score
      ]_vars

\* the credit_history rows of a user, in table order
HistoryOf(h, user_id) == SelectSeq(h, LAMBDA row : row.user_id = user_id)

\* the user whose score the request on a connection is changing (0: none yet)
TargetOf(conn) ==
    IF conn.handler = "admin_update_credit_score" THEN conn.user_id
    ELSE IF conn.order = Null THEN 0
    ELSE conn.order[1].user_id

\* C16: a step of a recompute or of an override for user u leaves the
\* credit_score, the credit_status and the credit_history rows of every
\* other user as they were, also while a request for another user is in
\* flight.
C16_OtherUsersUntouched ==
    [][\A c \in ConnIds :
          conns'[c] # conns[c]
              => \A t \in DOMAIN users :
                    t # TargetOf(conns[c])
                        => /\ users'[t].credit_score = users[t].credit_score
                           /\ users'[t].credit_status = users[t].credit_status
                           /\ HistoryOf(credit_history', t)
                                 = HistoryOf(credit_history, t)
      ]_vars

\* an override for user 3 holds its uncommitted write while a recompute for
\* customer 2 has committed the new score: user 3 is still at 70
C16_Witness ==
    \E c, d \in ConnIds :
        /\ conns[c].handler = "admin_update_credit_score"
        /\ 3 \in DOMAIN conns[c].tx.users
        /\ conns[d].handler = "cancel_order"
        /\ conns[d].pc = "insert_history"
        /\ users[2].credit_score = 35
        /\ users[3].credit_score = 70

ScoreIsCurrent(user_id) ==
    users[user_id].credit_score
        = calculate_credit_score(orders, user_id, FALSE)

\* C21: every order completion and every order cancellation, by whatever
\* path and actor (update_order_status by the restaurant, cancel_order by
\* customer, restaurant or admin), recomputes the order's customer: after
\* the request the customer's stored score is the score computed from the
\* customer's current orders.
C21_CompletionAndCancellationRecompute ==
    [][response'.success =>
         /\ \A u \in UserIds, o \in 1..MaxOrders, s \in StatusInputs,
               strict \in BOOLEAN :
               update_order_status(u, o, s, strict)
                   => ScoreIsCurrent(orders[o].user_id)'
         /\ \A u \in UserIds, o \in 1..MaxOrders, strict \in BOOLEAN :
               cancel_order(u, o, "none", strict)
                   => ScoreIsCurrent(orders[o].user_id)'
      ]_vars

\* the score of the rule when the customer's average restaurant feedback
\* is the submitted rating
ScoreWithRating(ords, user_id, rating) ==
    ScoreFromRow([AggregateRow(ords, user_id) EXCEPT
                     !.avg_restaurant_feedback = <<10 * rating, 1>>])

\* C22: after a restaurant's feedback on the one order of a customer the
\* recomputed score reflects the submitted rating: it is the score of the
\* rule with that rating as average restaurant feedback (+5 above 4.0,
\* -10 below 2.0).
C22_FeedbackReachesScore ==
    [][\A u \in UserIds, o \in 1..MaxOrders, r \in Ratings :
          (/\ submit_customer_feedback(u, o, r, "none")
           /\ response'.success)
              => users'[orders[o].user_id].credit_score
                    = ScoreWithRating(orders, orders[o].user_id, r)
      ]_vars

\* C23: the ledger is append-only: a request leaves credit_history as it
\* was or appends one row to it; no row already there is changed or removed.
C23_LedgerAppendOnly ==
    [][/\ Len(credit_history') \in {Len(credit_history), Len(credit_history) + 1}
       /\ SubSeq(credit_history', 1, Len(credit_history)) = credit_history
      ]_vars

\* two rows of one user, the older one written by a cancellation and still
\* there after an override wrote the newer one
C23_Witness ==
    /\ Len(credit_history) = 2
    /\ credit_history[1].user_id = credit_history[2].user_id
    /\ credit_history[1].triggered_by = "system"
    /\ credit_history[2].triggered_by = "admin"
    /\ credit_history[1].new_score = credit_history[2].old_score

\* the discount percentage of a tier
TierDiscount(tier) ==
    CASE tier = "trusted" -> 20
      [] tier = "good" -> 15
      [] tier = "average" -> 10
      [] tier = "risky" -> 5
      [] tier = "blocked" -> 0

\* C25: the discount of an order created by create_order or checkout is
\* the percentage of the tier of the customer's stored credit_score at that
\* moment (20, 15, 10, 5, 0), and the order's customer_credit_score is that
\* stored score.
C25_DiscountIsTierOfStoredScore ==
    [][\A u \in UserIds, r \in 1..MaxUsers :
          (\/ create_order(u, r)
           \/ \E m \in PaymentMethods : checkout(u, r, m))
              => LET order == orders'[Len(orders')]
                 IN  /\ order.user_id = u
                     /\ order.discount_percentage
                           = TierDiscount(TierOfScore(users[u].credit_score))
                     /\ order.customer_credit_score
                           = <<users[u].credit_score>>
      ]_vars

\* an order placed by a customer whose score an override had set to 40
C25_Witness ==
    \E o \in 1..Len(orders) :
        /\ orders[o].customer_credit_score = <<40>>
        /\ orders[o].discount_percentage = 5
        /\ users[orders[o].user_id].credit_status = "risky"

\* C26: an admin override commits the users update, its credit_history row
\* and its admin_actions row together or not at all: when one of the three
\* statements fails none of them is visible and the request reports
\* failure; when none fails all three are there.
C26_OverrideAllOrNothing ==
    [][\A u \in UserIds, t \in UserIds, s \in OverrideScores,
          f \in OverrideFaults :
          (admin_update_credit_score(u, t, s, f) /\ t \in DOMAIN users)
              => IF f = "none"
                 THEN /\ response'.success
                      /\ users'[t].credit_score = s
                      /\ Len(credit_history') = Len(credit_history) + 1
                      /\ Len(admin_actions') = Len(admin_actions) + 1
                 ELSE /\ ~response'.success
                      /\ users' = users
                      /\ credit_history' = credit_history
                      /\ admin_actions' = admin_actions
      ]_vars

\* an override failed at one of its statements before any order existed:
\* the request answered the failure and the three tables are untouched
C26_Witness ==
    /\ faults = 1
    /\ orders = <<>>
    /\ response = Failure("error")
    /\ credit_history = <<>>
    /\ admin_actions = <<>>
    /\ \A t \in DOMAIN users :
          users[t].credit_score \in {DEFAULT_CREDIT_SCORE, 100}

\* C27: a recompute depends on the user's orders only, not on the stored
\* score: after a recompute without failure the stored score is
\* calculate_credit_score of the current orders, so a score set by an
\* earlier override is replaced.
C27_RecomputeIgnoresStoredScore ==
    [][response'.success =>
         /\ \A u \in UserIds, o \in 1..MaxOrders, strict \in BOOLEAN :
               (/\ session[u].role = "customer"
                /\ cancel_order(u, o, "none", strict))
                   => ScoreIsCurrent(orders[o].user_id)'
         /\ \A u \in UserIds, o \in 1..MaxOrders, r \in Ratings :
               submit_customer_feedback(u, o, r, "none")
                   => ScoreIsCurrent(orders[o].user_id)'
      ]_vars

\* a customer overridden to 150 and recomputed afterwards: the stored score
\* is the one of the orders again
C27_Witness ==
    /\ Len(credit_history) = 2
    /\ credit_history[1].user_id = credit_history[2].user_id
    /\ credit_history[1].triggered_by = "admin"
    /\ credit_history[1].new_score = 150
    /\ credit_history[2].triggered_by \in {"system", "restaurant"}
    /\ users[credit_history[2].user_id].credit_score
          = credit_history[2].new_score
    /\ ScoreIsCurrent(credit_history[2].user_id)

\* C28: the discount percentage shown to a logged-in customer (from the
\* score stored in the session at login) equals the discount percentage
\* applied at checkout (from the stored credit_score), also after the
\* customer's score changed during the session.
C28_ShownDiscountIsAppliedDiscount ==
    \A u \in DOMAIN users :
        LoggedIn(u, "customer")
            => DiscountPercentage(session[u].credit_score)
                  = DiscountPercentage(users[u].credit_score)

\* C30: an order that update_order_status has brought to delivered counts
\* as a completed order in the aggregate of calculate_credit_score: for a
\* customer whose orders are all delivered completed_orders is
\* total_orders (and the completion bonus applies).
C30_DeliveredCountsAsCompleted ==
    \A u \in DOMAIN users :
        LET S == OrdersOf(orders, u)
            row == AggregateRow(orders, u)
        IN  (S # {} /\ \A i \in S : orders[i].status = "delivered")
                => /\ safe_int(row.completed_orders) = safe_int(row.total_orders)
                   /\ CompletionBonus(safe_int(row.total_orders),
                                      safe_int(row.completed_orders)) = 10

\* C29: a restaurant changes a customer's score and ledger through
\* submit_customer_feedback only for orders placed at that restaurant: a
\* feedback for an order of another restaurant is rejected and leaves
\* customer_feedback, the users table and credit_history as they were.
C29_FeedbackOnlyForOwnOrders ==
    [][\A u \in OwnerIds, o \in 1..MaxOrders, r \in Ratings, f \in Faults :
          (/\ o \in 1..Len(orders)
           /\ restaurants[orders[o].restaurant_id] # u
           /\ submit_customer_feedback(u, o, r, f))
              => /\ ~response'.success
                 /\ customer_feedback' = customer_feedback
                 /\ users' = users
                 /\ credit_history' = credit_history
      ]_vars

\* the ids of the newest limit rows of a user, newest first
NewestIds(table, user_id, limit) ==
    LET idx == {i \in 1..Len(table) : table[i].user_id = user_id}
        length == Min(Cardinality(idx), limit)
    IN  [k \in 1..length |->
            CHOOSE i \in idx : Cardinality({j \in idx : j > i}) = k - 1]

\* C24: get_user_stats returns only rows of the asking user, at most 10,
\* the most recent first, read from the ledger as it is at the call: the
\* answer's history is the user's newest 10 rows, newest first.
C24_RecentHistoryNewestFirst ==
    [][\A u \in UserIds, ties \in TieOrders :
          get_user_stats(u, ties)
              => /\ Len(response'.history) <= HISTORY_LIMIT
                 /\ \A k \in 1..Len(response'.history) :
                       response'.history[k].user_id = u
                 /\ [k \in 1..Len(response'.history) |->
                        response'.history[k].id]
                       = NewestIds(credit_history, u, HISTORY_LIMIT)
      ]_vars

====
